---- MODULE Spec2Model ----
(***************************************************************************)
(* Model of the video converter: the UI handlers of VideoConverterApp      *)
(* (src/main.py), the conversion worker thread they start, and the         *)
(* functions of FFmpegHandler / VideoProcessor (src/utils.py) it calls.    *)
(*                                                                         *)
(* Units.  Times are integers in 1/TimeScale seconds and percentages are   *)
(* integers in 1/100 percent (10000 = 100.0%), so that the float           *)
(* arithmetic of convert_video is exact on the modelled inputs.            *)
(***************************************************************************)
EXTENDS Integers, Sequences, FiniteSets, TLC

\* ------------------------------------------------------------ bounds
MaxFiles == 2        \* longest selection returned by the file dialog
MaxBatches == 2      \* clicks on Start Conversion in one run
MaxEvents == 1       \* progress events one job posts
MaxQueue == 1        \* callbacks posted with after() and not yet run
MaxFracDigits == 3   \* longest fractional part of a time= token
MaxLoopEvents == 2   \* progress events of a convert_video call made alone
MaxBatchQueue == 2   \* callbacks not yet run, when one batch is followed alone

\* ------------------------------------------------------------ helpers
RECURSIVE Pow10(_)
Pow10(n) == IF n = 0 THEN 1 ELSE 10 * Pow10(n - 1)

Range(s) == {s[k] : k \in 1..Len(s)}

Min(a, b) == IF a < b THEN a ELSE b

\* int() of a string of decimal digits, given as the sequence of its digits
RECURSIVE int(_)
int(ds) ==
    IF ds = <<>> THEN 0
    ELSE 10 * int(SubSeq(ds, 1, Len(ds) - 1)) + ds[Len(ds)]

TimeScale == Pow10(MaxFracDigits)

\* ------------------------------------------------------------ inputs
\* A path picked in the file dialog, split the way os.path splits it.
Video(k) ==
    [dir |-> "/in", stem |-> IF k = 1 THEN "a" ELSE IF k = 2 THEN "b" ELSE "c",
     ext |-> IF k = 1 THEN ".avi" ELSE IF k = 2 THEN ".mkv" ELSE ".ts"]

Ascending(n) == [k \in 1..n |-> Video(k)]

\* What filedialog.askopenfilenames returns when the user confirms a choice.
Selections == {Ascending(n) : n \in 1..MaxFiles}

\* What filedialog.askdirectory returns when the user confirms a choice.
Folders == {"/out", "/alt"}

\* format_dropdown values
FormatValues == {"mp4", "avi", "mov", "mkv", "webm", "flv", "wmv", "m4v"}

\* str.lower() on the format names the model passes to convert_video
lower(s) ==
    CASE s = "WEBM" -> "webm"
      [] s = "WebM" -> "webm"
      [] s = "MOV" -> "mov"
      [] s = "M4V" -> "m4v"
      [] s = "MP4" -> "mp4"
      [] OTHER -> s

os_path_basename(f) == f.stem \o f.ext
os_path_splitext0(f) == f.stem
os_path_join(folder, name) == folder \o "/" \o name
InputPath(f) == f.dir \o "/" \o f.stem \o f.ext

\* ------------------------------------------------------------ utils.py
\* Outcomes of subprocess.run(["ffmpeg", "-version"], timeout=10): the
\* exception class raised, or "none" with the exit status.
ProbeOutcomes ==
    { [exc |-> "none", returncode |-> 0],
      [exc |-> "none", returncode |-> 1],
      [exc |-> "TimeoutExpired", returncode |-> 0],
      [exc |-> "FileNotFoundError", returncode |-> 0],
      [exc |-> "PermissionError", returncode |-> 0],
      [exc |-> "OSError", returncode |-> 0] }

\* One outcome of each kind, for the probes the UI handlers make
AppProbes ==
    { [exc |-> "none", returncode |-> 0],
      [exc |-> "FileNotFoundError", returncode |-> 0],
      [exc |-> "PermissionError", returncode |-> 0] }

\* The except clause of is_ffmpeg_installed.  TimeoutExpired and
\* CalledProcessError are SubprocessError; FileNotFoundError is named;
\* PermissionError and the other OSError are neither.
ProbeCaught == {"TimeoutExpired", "FileNotFoundError", "SubprocessError",
                "CalledProcessError"}

\* result.returncode == 0
ProbeReturn(o) == o.returncode = 0

\* FFmpegHandler.is_ffmpeg_installed: the value returned, or the exception
\* that leaves the function.
is_ffmpeg_installed(o) ==
    IF o.exc = "none" THEN [raised |-> "none", value |-> ProbeReturn(o)]
    ELSE IF o.exc \in ProbeCaught THEN [raised |-> "none", value |-> FALSE]
    ELSE [raised |-> o.exc, value |-> FALSE]

\* Python's cmd[lo:hi] = new on a list (0-based, hi exclusive)
SliceAssign(cmd, lo, hi, new) ==
    SubSeq(cmd, 1, lo) \o new \o SubSeq(cmd, hi + 1, Len(cmd))

\* The argument list of convert_video, lines 261-276.
BuildCmd(input_file, output_file, output_format) ==
    LET cmd == << "ffmpeg", "-i", input_file,
                  "-c:v", "libx264",
                  "-c:a", "aac",
                  "-preset", "medium",
                  "-crf", "23",
                  "-movflags", "+faststart",
                  "-y",
                  output_file >>
    IN  IF lower(output_format) = "webm"
        THEN SliceAssign(cmd, 5, 7, << "-c:v", "libvpx-vp9", "-c:a", "libopus" >>)
        ELSE IF lower(output_format) \in {"mov", "m4v"}
        THEN SliceAssign(cmd, 5, 7, << "-c:v", "libx264", "-c:a", "aac" >>)
        ELSE cmd

\* A stderr line as re.search(r'time=(\d+):(\d+):(\d+)\.(\d+)', line) sees
\* it: no match, or the four groups, each the sequence of its digits.
NoMatch == [match |-> FALSE, h |-> <<>>, m |-> <<>>, s |-> <<>>, f |-> <<>>]
TimeLine(h, m, s, f) == [match |-> TRUE, h |-> h, m |-> m, s |-> s, f |-> f]

\* hours * 3600 + minutes * 60 + seconds + centiseconds / 100, in
\* 1/TimeScale seconds (TimeScale is a multiple of 100).
CurrentTime(line) ==
    (int(line.h) * 3600 + int(line.m) * 60 + int(line.s)) * TimeScale
        + int(line.f) * (TimeScale \div 100)

\* progress = (current_time / duration) * 100, in 1/100 percent
\* (a duration is a whole number of seconds here, so dividing it by 100
\* first is exact and keeps the product in range)
Progress(current_time, duration) == (current_time * 100) \div (duration \div 100)

\* min(progress, 100)
Clamp(progress) == Min(progress, 10000)

\* Outcomes of the ffprobe run of _get_video_duration: an exception
\* (timeout, spawn failure), or the exit status and the stripped stdout,
\* which is empty, not a number, or a number of seconds.
DurationProbes ==
    { [exc |-> TRUE, returncode |-> 0, out |-> "", secs |-> 0],
      [exc |-> FALSE, returncode |-> 1, out |-> "", secs |-> 0],
      [exc |-> FALSE, returncode |-> 0, out |-> "", secs |-> 0],
      [exc |-> FALSE, returncode |-> 0, out |-> "N/A", secs |-> 0],
      [exc |-> FALSE, returncode |-> 0, out |-> "number", secs |-> 0],
      [exc |-> FALSE, returncode |-> 0, out |-> "number", secs |-> 90] }

None == [known |-> FALSE, value |-> 0]

\* VideoProcessor._get_video_duration: None, or float(duration_str) in
\* 1/TimeScale seconds.
get_video_duration(p) ==
    IF p.exc THEN None
    ELSE IF p.returncode = 0
    THEN IF p.out = "" THEN None
         ELSE IF p.out = "number" THEN [known |-> TRUE, value |-> p.secs * TimeScale]
         ELSE None
    ELSE None

\* A test of `duration is not None` in place of the truth value.
Truthy_IsNotNone(duration) == duration.known

\* truth value of `duration` in `if progress_callback and duration`
Truthy(duration) == duration.known /\ duration.value # 0

\* Exit statuses process.wait() returns
ExitCodes == {0, 1}

\* if progress_callback and duration: ... if time_match:, lines 296-298,
\* with a progress callback given
EmitsProgress(duration, line) == Truthy(duration) /\ line.match

\* the value passed to progress_callback, lines 299-302
Percent(line, duration) == Clamp(Progress(CurrentTime(line), duration.value))

\* State of the output path when convert_video tests it.
OutputStates == {"missing", "empty", "data"}

os_path_exists(state) == state # "missing"

\* A convert_video that looks at the output file only.
ConvertResult_IgnoreExit(return_code, output_state) == os_path_exists(output_state)

\* return_code == 0 and os.path.exists(output_file), lines 307-311
ConvertResult(return_code, output_state) ==
    return_code = 0 /\ os_path_exists(output_state)

\* ------------------------------------------------------------ state
\* The text of self.progress_text is written by log_progress and by
\* start_conversion and read by no handler: it is not part of the state.
VARIABLES
    selected_files,      \* self.selected_files
    output_folder,       \* self.output_folder ("" until one is chosen)
    convert_btn,         \* state of self.convert_btn: "normal" / "disabled"
    destroyed,           \* self.root.destroy() has run
    check_thread,        \* the check_thread of check_ffmpeg_status
    conversion_threads,  \* self.conversion_threads, one record per worker
    after_queue,         \* callbacks posted with self.root.after(0, ...)
    call,                \* a single call of a function of utils.py ...
    ret                  \* ... and what it returned

vars == << selected_files, output_folder, convert_btn, destroyed,
           check_thread, conversion_threads, after_queue, call, ret >>

NoCall == [fn |-> "none"]
NoRet == [done |-> FALSE]

\* stderr lines a conversion subprocess emits: free text, time=00:00:30.00
\* and time=00:01:30.50
Lines ==
    { NoMatch,
      TimeLine(<<0, 0>>, <<0, 0>>, <<3, 0>>, <<0, 0>>),
      TimeLine(<<0, 0>>, <<0, 1>>, <<3, 0>>, <<5, 0>>) }

\* Formats chosen in the dropdown when Start is clicked
StartFormats == {"webm"}

Workers == 1..Len(conversion_threads)

\* thread.is_alive()
is_alive(t) == t.pc \notin {"done", "dead"}

\* A worker thread as threading.Thread(target=conversion_thread) creates
\* it: the closure holds output_format; the rest are its locals and those
\* of the convert_video call it is in.
NewThread(output_format) ==
    [ pc |-> "start",
      output_format |-> output_format,
      files |-> <<>>,           \* the list enumerate() iterates
      i |-> 0,                  \* 1-based position in files
      output_file |-> "",
      proc |-> "none",          \* process: "none" / "running" (not waited for)
      duration |-> None,
      events |-> <<>>,          \* percents passed to progress_callback, this job
      success |-> FALSE,
      fault |-> "none",         \* where convert_video caught an exception, this job
      launched |-> 0,           \* subprocesses this thread has started
      results |-> <<>> ]        \* outcomes posted so far, in order

\* ------------------------------------------------------------ main.py, UI
\* check_conversion_ready, lines 266-275: the button state it leaves; an
\* exception of is_ffmpeg_installed leaves the handler before configure().
check_conversion_ready(o, files, folder, btn) ==
    LET ffmpeg_ready == is_ffmpeg_installed(o)
        files_selected == Len(files) > 0
        folder_selected == folder # ""
    IN  IF ffmpeg_ready.raised # "none" THEN btn
        ELSE IF ffmpeg_ready.value /\ files_selected /\ folder_selected
        THEN "normal"
        ELSE "disabled"

Init ==
    /\ selected_files = <<>>
    /\ output_folder = ""
    /\ convert_btn = "disabled"
    /\ destroyed = FALSE
    /\ check_thread = "running"
    /\ conversion_threads = <<>>
    /\ after_queue = <<>>
    /\ call = NoCall
    /\ ret = NoRet

\* A main loop that runs the newest posted callback first.
root_after_Front(fn, arg) == << [fn |-> fn, arg |-> arg] >> \o after_queue

\* self.root.after(0, fn, arg) on a live root
root_after(fn, arg) == Append(after_queue, [fn |-> fn, arg |-> arg])

\* room in the callback queue (the bound of the model)
CanPost ==
    Len(after_queue) < (IF call = NoCall THEN MaxQueue ELSE MaxBatchQueue)

\* The startup check of check_ffmpeg_status, lines 178-201: check_thread
\* probes the tool and, unless the probe raises in the thread, the main
\* loop runs update_ffmpeg_status with its result
UpdateFfmpegStatus ==
    /\ ~destroyed
    /\ check_thread = "running"
    /\ check_thread' = "done"
    /\ convert_btn' \in
         { LET is_installed == is_ffmpeg_installed(first)
           IN  IF is_installed.raised = "none" /\ is_installed.value
               THEN check_conversion_ready(o, selected_files, output_folder,
                                           convert_btn)
               ELSE convert_btn : first \in AppProbes, o \in AppProbes }
    /\ UNCHANGED << selected_files, output_folder, destroyed,
                    conversion_threads, after_queue, call, ret >>

\* select_files, lines 232-247, when the dialog returns a selection
SelectFiles ==
    /\ ~destroyed
    /\ \E files \in Selections :
         /\ selected_files' = files
         /\ convert_btn' \in
              {check_conversion_ready(o, files, output_folder, convert_btn) :
                 o \in AppProbes}
    /\ UNCHANGED << output_folder, destroyed, check_thread, conversion_threads,
                    after_queue, call, ret >>

\* select_output_folder, lines 258-264, when the dialog returns a folder
SelectOutputFolder ==
    /\ ~destroyed
    /\ \E folder \in Folders :
         /\ output_folder' = folder
         /\ convert_btn' \in
              {check_conversion_ready(o, selected_files, folder, convert_btn) :
                 o \in AppProbes}
    /\ UNCHANGED << selected_files, destroyed, check_thread, conversion_threads,
                    after_queue, call, ret >>

\* start_conversion, lines 283-337: a click on the enabled Start button
StartConversion ==
    /\ ~destroyed
    /\ convert_btn = "normal"
    /\ Len(conversion_threads) < MaxBatches
    /\ \E output_format \in StartFormats :
         IF selected_files = <<>> \/ output_folder = ""
         THEN UNCHANGED << convert_btn, conversion_threads >>
         ELSE /\ convert_btn' = "disabled"
              /\ conversion_threads' =
                   Append(conversion_threads, NewThread(output_format))
    /\ UNCHANGED << selected_files, output_folder, destroyed, check_thread,
                    after_queue, call, ret >>

\* The Tk main loop runs the oldest posted callback: log_progress (277-281),
\* conversion_complete (339-343) or conversion_error (345-349)
RunAfter ==
    /\ ~destroyed
    /\ after_queue # <<>>
    /\ after_queue' = Tail(after_queue)
    /\ convert_btn' =
         IF Head(after_queue).fn \in {"conversion_complete", "conversion_error"}
         THEN "normal"
         ELSE convert_btn
    /\ UNCHANGED << selected_files, output_folder, destroyed, check_thread,
                    conversion_threads, call, ret >>

\* on_closing, lines 351-364
OnClosing ==
    /\ ~destroyed
    /\ \E response \in BOOLEAN :
         IF (\E w \in Workers : is_alive(conversion_threads[w])) /\ ~response
         THEN UNCHANGED << destroyed, after_queue >>
         ELSE /\ destroyed' = TRUE
              /\ after_queue' = <<>>
    /\ UNCHANGED << selected_files, output_folder, convert_btn, check_thread,
                    conversion_threads, call, ret >>

\* ------------------------------------------------------------ main.py, worker
SetThread(w, t) ==
    conversion_threads' = [conversion_threads EXCEPT ![w] = t]

\* the argument of a log_progress callback posted by worker w
LogMsg(w, kind, filename, percent) ==
    [batch |-> w, kind |-> kind, file |-> filename, percent |-> percent]

\* the locals of one loop iteration, cleared when the next one starts
NextJob(t) ==
    [t EXCEPT !.output_file = "", !.proc = "none", !.duration = None,
              !.events = <<>>, !.success = FALSE, !.fault = "none"]

\* an exception raised in the loop body of conversion_thread reaches the
\* handler of lines 331-332
Raise(t) == [NextJob(t) EXCEPT !.pc = "except"]

\* for i, input_file in enumerate(self.selected_files), line 303: the
\* thread's first step binds the list it iterates
WorkerBegin(w) ==
    LET t == conversion_threads[w]
    IN  /\ t.pc = "start"
        /\ SetThread(w, [t EXCEPT !.files = selected_files, !.i = 1,
                                  !.pc = IF selected_files = <<>>
                                         THEN "complete" ELSE "announce"])
        /\ UNCHANGED << selected_files, output_folder, convert_btn, destroyed,
                        check_thread, after_queue, call, ret >>

\* lines 304-309: post "Converting <filename>..." and build the output
\* path from the folder selected now; after() on a destroyed root raises
Announce(w) ==
    LET t == conversion_threads[w]
        input_file == t.files[t.i]
        filename == os_path_basename(input_file)
        base_name == os_path_splitext0(input_file)
    IN  /\ t.pc = "announce"
        /\ IF destroyed
           THEN /\ SetThread(w, Raise(t))
                /\ UNCHANGED after_queue
           ELSE /\ CanPost
                /\ after_queue' =
                     root_after("log_progress", LogMsg(w, "converting", filename, 0))
                /\ SetThread(w, [t EXCEPT
                     !.pc = "convert",
                     !.output_file =
                        os_path_join(output_folder,
                                     base_name \o "." \o t.output_format)])
        /\ UNCHANGED << selected_files, output_folder, convert_btn, destroyed,
                        check_thread, call, ret >>

\* A convert_video without its except clause: the exception reaches the
\* handler of the worker loop.
ConvertExcept_Propagate(t, where) ==
    Raise(t)

\* except Exception as e: ... return False, lines 313-315; `where` is the
\* call that raised: "spawn" (Popen), "stream" (readline) or "callback".
\* The clause neither terminates nor waits for a subprocess that was
\* launched: proc stays as it is.
ConvertExcept(t, where) ==
    [t EXCEPT !.pc = "report", !.success = FALSE, !.fault = where,
              !.duration = None, !.events = <<>>,
              !.output_file = ""]

\* convert_video, lines 259-289: the subprocess is launched and the
\* duration of the input is probed
Popen(w) ==
    LET t == conversion_threads[w]
    IN  /\ t.pc = "convert"
        /\ \E duration \in {get_video_duration(p) : p \in DurationProbes} :
             SetThread(w, [t EXCEPT !.pc = "read", !.proc = "running",
                                    !.launched = @ + 1,
                                    !.output_file = "",
                                    !.duration = duration])
        /\ UNCHANGED << selected_files, output_folder, convert_btn, destroyed,
                        check_thread, after_queue, call, ret >>

\* convert_video, lines 259-286 and 313-315: Popen raises (tool missing,
\* permission denied)
PopenRaises(w) ==
    LET t == conversion_threads[w]
    IN  /\ t.pc = "convert"
        /\ SetThread(w, ConvertExcept(t, "spawn"))
        /\ UNCHANGED << selected_files, output_folder, convert_btn, destroyed,
                        check_thread, after_queue, call, ret >>

\* one pass of the loop of lines 291-302 on a non-empty line; the progress
\* callback (lines 312-313) posts to the UI and raises on a destroyed root
ReadLine(w) ==
    LET t == conversion_threads[w]
        filename == os_path_basename(t.files[t.i])
    IN  /\ t.pc = "read"
        /\ \E line \in Lines :
             IF EmitsProgress(t.duration, line)
             THEN LET percent == Percent(line, t.duration)
                  IN  IF destroyed
                      THEN /\ SetThread(w, ConvertExcept(t, "callback"))
                           /\ UNCHANGED after_queue
                      ELSE /\ CanPost
                           /\ Len(t.events) < MaxEvents
                           /\ SetThread(w, [t EXCEPT !.events = Append(@, percent)])
                           /\ after_queue' =
                                root_after("log_progress",
                                           LogMsg(w, "progress", filename, percent))
             ELSE UNCHANGED << conversion_threads, after_queue >>
        /\ UNCHANGED << selected_files, output_folder, convert_btn, destroyed,
                        check_thread, call, ret >>

\* readline() returns "" at end of stream: break, lines 292-294
ReadEOF(w) ==
    LET t == conversion_threads[w]
    IN  /\ t.pc = "read"
        /\ SetThread(w, [t EXCEPT !.pc = "wait", !.duration = None,
                                  !.events = <<>>])
        /\ UNCHANGED << selected_files, output_folder, convert_btn, destroyed,
                        check_thread, after_queue, call, ret >>

\* readline() raises (undecodable bytes, read error): lines 292, 313-315;
\* the subprocess is neither terminated nor waited for
ReadRaises(w) ==
    LET t == conversion_threads[w]
    IN  /\ t.pc = "read"
        /\ SetThread(w, ConvertExcept(t, "stream"))
        /\ UNCHANGED << selected_files, output_folder, convert_btn, destroyed,
                        check_thread, after_queue, call, ret >>

\* return_code = process.wait() and the test of lines 305-311
Wait(w) ==
    LET t == conversion_threads[w]
    IN  /\ t.pc = "wait"
        /\ \E success \in {ConvertResult(return_code, output_state) :
                              return_code \in ExitCodes,
                              output_state \in OutputStates} :
             SetThread(w, [t EXCEPT !.pc = "report", !.proc = "none",
                                    !.success = success])
        /\ UNCHANGED << selected_files, output_folder, convert_btn, destroyed,
                        check_thread, after_queue, call, ret >>

\* A loop that leaves at the first file that failed.
LoopNext_StopOnFailure(t) ==
    IF ~t.success \/ t.i + 1 > Len(t.files) THEN "complete" ELSE "announce"

\* the for statement of line 303 after the body of file i: the next file,
\* or line 329 when the list is exhausted
LoopNext(t) ==
    IF t.i + 1 > Len(t.files) THEN "complete" ELSE "announce"

\* lines 323-326 and the loop's next iteration: post the file's outcome
Report(w) ==
    LET t == conversion_threads[w]
        filename == os_path_basename(t.files[t.i])
        kind == IF t.success THEN "success" ELSE "failed"
        n == NextJob(t)
    IN  /\ t.pc = "report"
        /\ IF destroyed
           THEN /\ SetThread(w, Raise(t))
                /\ UNCHANGED after_queue
           ELSE /\ CanPost
                /\ after_queue' =
                     root_after("log_progress", LogMsg(w, kind, filename, 0))
                /\ SetThread(w, [n EXCEPT
                     !.results = Append(@, [file |-> filename,
                                            success |-> t.success,
                                            fault |-> t.fault # "none"]),
                     !.i = @ + 1,
                     !.pc = LoopNext(t)])
        /\ UNCHANGED << selected_files, output_folder, convert_btn, destroyed,
                        check_thread, call, ret >>

\* self.root.after(0, self.conversion_complete), line 329
Complete(w) ==
    LET t == conversion_threads[w]
    IN  /\ t.pc = "complete"
        /\ IF destroyed
           THEN /\ SetThread(w, Raise(t))
                /\ UNCHANGED after_queue
           ELSE /\ CanPost
                /\ after_queue' =
                     root_after("conversion_complete", LogMsg(w, "complete", "", 0))
                /\ SetThread(w, [t EXCEPT !.pc = "done"])
        /\ UNCHANGED << selected_files, output_folder, convert_btn, destroyed,
                        check_thread, call, ret >>

\* except Exception as e: self.root.after(0, self.conversion_error, ...),
\* lines 331-332; on a destroyed root after() raises again and the thread
\* ends with the exception
Except(w) ==
    LET t == conversion_threads[w]
    IN  /\ t.pc = "except"
        /\ IF destroyed
           THEN /\ SetThread(w, [t EXCEPT !.pc = "dead"])
                /\ UNCHANGED after_queue
           ELSE /\ CanPost
                /\ after_queue' =
                     root_after("conversion_error", LogMsg(w, "error", "", 0))
                /\ SetThread(w, [t EXCEPT !.pc = "done"])
        /\ UNCHANGED << selected_files, output_folder, convert_btn, destroyed,
                        check_thread, call, ret >>

\* The subprocess writes to its standard output, which Popen made a pipe
\* (line 283) that nothing reads: once the pipe is full the subprocess
\* blocks in the write, writes no further stderr line and never closes
\* stderr, and the worker stays in readline() (line 292)
SubprocessStalls(w) ==
    LET t == conversion_threads[w]
    IN  /\ t.pc = "read"
        /\ SetThread(w, [t EXCEPT !.pc = "stalled", !.duration = None,
                                  !.events = <<>>])
        /\ UNCHANGED << selected_files, output_folder, convert_btn, destroyed,
                        check_thread, after_queue, call, ret >>

Next ==
    \/ UpdateFfmpegStatus
    \/ SelectFiles
    \/ SelectOutputFolder
    \/ StartConversion
    \/ RunAfter
    \/ OnClosing
    \/ \E w \in Workers : WorkerBegin(w)
    \/ \E w \in Workers : Announce(w)
    \/ \E w \in Workers : Popen(w)
    \/ \E w \in Workers : PopenRaises(w)
    \/ \E w \in Workers : ReadLine(w)
    \/ \E w \in Workers : ReadEOF(w)
    \/ \E w \in Workers : ReadRaises(w)
    \/ \E w \in Workers : SubprocessStalls(w)
    \/ \E w \in Workers : Wait(w)
    \/ \E w \in Workers : Report(w)
    \/ \E w \in Workers : Complete(w)
    \/ \E w \in Workers : Except(w)

Spec == Init /\ [][Next]_vars

\* The files of worker t whose iteration has not begun: the loop body of
\* file t.i starts at line 304
NotYetRun(t) ==
    IF t.pc = "announce" THEN t.i..Len(t.files) ELSE (t.i + 1)..Len(t.files)

\* output_file of lines 308-309 for the k-th file of worker t, were its
\* iteration to run with self.output_folder = folder
OutputFile(folder, t, k) ==
    os_path_join(folder,
                 os_path_splitext0(t.files[k]) \o "." \o t.output_format)

\* ------------------------------------------------------------ utils.py, called alone
\* One call of a function of utils.py on an argument drawn from the sets
\* below, with the application left as constructed.

\* fractional parts of a time= token: 1..MaxFracDigits digits
Fractions == UNION {[1..n -> {0, 5}] : n \in 1..MaxFracDigits}

\* time= tokens of stderr lines, hours 00
TimeTokens ==
    { TimeLine(<<0, 0>>, m, s, f) :
        m \in {<<0, 0>>, <<0, 1>>}, s \in {<<0, 5>>, <<3, 0>>}, f \in Fractions }

\* output_format as the dropdown gives it, and in other letter cases
CmdFormats == FormatValues \cup {"WEBM", "WebM", "MOV", "M4V", "MP4"}

\* durations _get_video_duration returns: None, 0.0, 90.0
Durations == {get_video_duration(p) : p \in DurationProbes}

ProbeCalls ==
    { [fn |-> "is_ffmpeg_installed", arg |-> o] : o \in ProbeOutcomes }

CmdCalls ==
    { [fn |-> "convert_video.cmd",
       arg |-> [input_file |-> InputPath(Video(k)),
                output_file |-> os_path_join(folder,
                                   os_path_splitext0(Video(k)) \o "." \o f),
                output_format |-> f]] :
        k \in 1..MaxFiles, folder \in Folders, f \in CmdFormats }

TimeCalls ==
    { [fn |-> "convert_video.time", arg |-> line] : line \in TimeTokens }

ResultCalls ==
    { [fn |-> "convert_video.result",
       arg |-> [return_code |-> rc, output_state |-> st]] :
        rc \in ExitCodes, st \in OutputStates }

LoopCalls ==
    { [fn |-> "convert_video.loop", arg |-> d] : d \in Durations }

InitFn ==
    /\ selected_files = <<>>
    /\ output_folder = ""
    /\ convert_btn = "disabled"
    /\ destroyed = FALSE
    /\ check_thread = "running"
    /\ conversion_threads = <<>>
    /\ after_queue = <<>>
    /\ \/ call \in ProbeCalls
       \/ call \in CmdCalls
       \/ call \in TimeCalls
       \/ call \in ResultCalls
       \/ call \in LoopCalls
    /\ ret = IF call.fn = "convert_video.loop"
             THEN [done |-> FALSE, value |-> <<>>]
             ELSE NoRet

app_vars == << selected_files, output_folder, convert_btn, destroyed,
               check_thread, conversion_threads, after_queue >>

\* FFmpegHandler.is_ffmpeg_installed, lines 23-34
CallIsFfmpegInstalled ==
    /\ call.fn = "is_ffmpeg_installed"
    /\ ~ret.done
    /\ LET r == is_ffmpeg_installed(call.arg)
       IN  ret' = [done |-> TRUE, raised |-> r.raised, value |-> r.value]
    /\ UNCHANGED << app_vars, call >>

\* convert_video, lines 261-276: the argument list handed to Popen
CallBuildCmd ==
    /\ call.fn = "convert_video.cmd"
    /\ ~ret.done
    /\ ret' = [done |-> TRUE,
               value |-> BuildCmd(call.arg.input_file, call.arg.output_file,
                                  call.arg.output_format)]
    /\ UNCHANGED << app_vars, call >>

\* convert_video, lines 299-300, on one matching line
CallCurrentTime ==
    /\ call.fn = "convert_video.time"
    /\ ~ret.done
    /\ ret' = [done |-> TRUE, value |-> CurrentTime(call.arg)]
    /\ UNCHANGED << app_vars, call >>

\* convert_video, lines 305-311
CallConvertResult ==
    /\ call.fn = "convert_video.result"
    /\ ~ret.done
    /\ ret' = [done |-> TRUE,
               value |-> ConvertResult(call.arg.return_code,
                                       call.arg.output_state)]
    /\ UNCHANGED << app_vars, call >>

\* convert_video, lines 291-302: one pass of the read loop on a line of
\* the stream, with a callback that records the percent it is given
CallReadLine ==
    /\ call.fn = "convert_video.loop"
    /\ ~ret.done
    /\ Len(ret.value) < MaxLoopEvents
    /\ \E line \in TimeTokens \cup {NoMatch} :
         ret' = IF EmitsProgress(call.arg, line)
                THEN [ret EXCEPT !.value = Append(@, Percent(line, call.arg))]
                ELSE ret
    /\ UNCHANGED << app_vars, call >>

\* convert_video, lines 292-294: end of the stream
CallReadEOF ==
    /\ call.fn = "convert_video.loop"
    /\ ~ret.done
    /\ ret' = [ret EXCEPT !.done = TRUE]
    /\ UNCHANGED << app_vars, call >>

NextFn ==
    \/ CallIsFfmpegInstalled
    \/ CallBuildCmd
    \/ CallCurrentTime
    \/ CallConvertResult
    \/ CallReadLine
    \/ CallReadEOF

SpecFn == InitFn /\ [][NextFn]_vars

\* ------------------------------------------------------------ one batch, followed
\* One batch from the return of start_conversion on, with the messages the
\* main loop has run kept in ret.value in the order it ran them (the lines
\* log_progress appends to the text box, and the completion callbacks).
BatchCall == [fn |-> "batch"]

InitBatch ==
    /\ selected_files \in Selections
    /\ output_folder \in Folders
    /\ convert_btn = "disabled"
    /\ destroyed = FALSE
    /\ check_thread = "done"
    /\ \E output_format \in StartFormats :
         conversion_threads = << NewThread(output_format) >>
    /\ after_queue = <<>>
    /\ call = BatchCall
    /\ ret = [done |-> FALSE, value |-> <<>>]

\* The Tk main loop runs the oldest posted callback, as RunAfter: lines
\* 277-281, 339-343, 345-349
Deliver ==
    /\ ~destroyed
    /\ after_queue # <<>>
    /\ after_queue' = Tail(after_queue)
    /\ convert_btn' =
         IF Head(after_queue).fn \in {"conversion_complete", "conversion_error"}
         THEN "normal"
         ELSE convert_btn
    /\ ret' = [ret EXCEPT !.value = Append(@, Head(after_queue).arg)]
    /\ UNCHANGED << selected_files, output_folder, destroyed, check_thread,
                    conversion_threads, call >>

\* the steps the worker takes when it is scheduled and its subprocess
\* finishes its work
WorkerStep(w) ==
    \/ WorkerBegin(w)
    \/ Announce(w)
    \/ Popen(w)
    \/ ReadEOF(w)
    \/ Wait(w)
    \/ Report(w)
    \/ Complete(w)
    \/ Except(w)

NextBatch ==
    \/ Deliver
    \/ OnClosing
    \/ \E w \in Workers : WorkerBegin(w)
    \/ \E w \in Workers : Announce(w)
    \/ \E w \in Workers : Popen(w)
    \/ \E w \in Workers : PopenRaises(w)
    \/ \E w \in Workers : ReadLine(w)
    \/ \E w \in Workers : ReadEOF(w)
    \/ \E w \in Workers : ReadRaises(w)
    \/ \E w \in Workers : SubprocessStalls(w)
    \/ \E w \in Workers : Wait(w)
    \/ \E w \in Workers : Report(w)
    \/ \E w \in Workers : Complete(w)
    \/ \E w \in Workers : Except(w)

\* The worker thread and the main loop are scheduled fairly, and a
\* subprocess that is not stalled ends its stream.
SpecBatch ==
    InitBatch /\ [][NextBatch]_vars /\ WF_vars(WorkerStep(1)) /\ WF_vars(Deliver)

\* ------------------------------------------------------------ convert_video, whole
\* One call of convert_video from the duration probe to the return, with a
\* callback that records the percents it is given.  The call is given the
\* outcome of the ffprobe run, the exit status of the subprocess and the
\* state of the output file.
VideoCalls ==
    { [fn |-> "convert_video",
       arg |-> [probe |-> p, return_code |-> rc, output_state |-> st]] :
        p \in DurationProbes, rc \in ExitCodes, st \in OutputStates }

InitVideo ==
    /\ selected_files = <<>>
    /\ output_folder = ""
    /\ convert_btn = "disabled"
    /\ destroyed = FALSE
    /\ check_thread = "running"
    /\ conversion_threads = <<>>
    /\ after_queue = <<>>
    /\ call \in VideoCalls
    /\ ret = [done |-> FALSE, stage |-> "probe", duration |-> None,
              value |-> <<>>, raised |-> "none", success |-> FALSE]

\* duration = self._get_video_duration(input_file), line 289
CallVideoDuration ==
    /\ call.fn = "convert_video"
    /\ ret.stage = "probe"
    /\ ret' = [ret EXCEPT !.stage = "read",
                          !.duration = get_video_duration(call.arg.probe)]
    /\ UNCHANGED << app_vars, call >>

\* one pass of the loop of lines 291-302; a division by a zero duration
\* raises ZeroDivisionError, which the except clause of lines 313-315
\* turns into a False return
CallVideoReadLine ==
    /\ call.fn = "convert_video"
    /\ ret.stage = "read"
    /\ Len(ret.value) < MaxLoopEvents
    /\ \E line \in Lines :
         ret' = IF ~EmitsProgress(ret.duration, line) THEN ret
                ELSE IF ret.duration.value = 0
                THEN [ret EXCEPT !.done = TRUE, !.stage = "except",
                                 !.raised = "ZeroDivisionError",
                                 !.success = FALSE]
                ELSE [ret EXCEPT !.value = Append(@, Percent(line, ret.duration))]
    /\ UNCHANGED << app_vars, call >>

\* end of the stream, process.wait() and the test of lines 305-311
CallVideoWait ==
    /\ call.fn = "convert_video"
    /\ ret.stage = "read"
    /\ ret' = [ret EXCEPT !.done = TRUE, !.stage = "return",
                          !.success = ConvertResult(call.arg.return_code,
                                                    call.arg.output_state)]
    /\ UNCHANGED << app_vars, call >>

NextVideo ==
    \/ CallVideoDuration
    \/ CallVideoReadLine
    \/ CallVideoWait

SpecVideo == InitVideo /\ [][NextVideo]_vars

\* ------------------------------------------------------------ claims
\* C1: a worker that runs its loop to the end has posted exactly one outcome
\* per file of the list it iterates, the k-th outcome for the k-th file,
\* whatever the outcomes are; until then the outcomes posted are those of
\* the first files, in order.
C1_OneOutcomePerFile ==
    \A w \in Workers :
        LET t == conversion_threads[w]
        IN  /\ Len(t.results) <= Len(t.files)
            /\ \A k \in 1..Len(t.results) :
                 t.results[k].file = os_path_basename(t.files[k])
            /\ t.pc \in {"complete", "done"} => Len(t.results) = Len(t.files)

\* C1 witness: a worker has finished a batch of two files whose first job
\* failed on a fault and whose second job succeeded.
C1_Witness ==
    \E w \in Workers :
        LET t == conversion_threads[w]
        IN  /\ t.pc = "done"
            /\ Len(t.files) = 2
            /\ Len(t.results) = 2
            /\ t.results[1].fault /\ ~t.results[1].success
            /\ t.results[2].success

\* C2: at most one conversion subprocess is running at any time.
C2_OneSubprocess ==
    Cardinality({w \in Workers : conversion_threads[w].proc = "running"}) <= 1

\* C3: convert_video returns success exactly when the exit status is 0 and
\* the output file exists and is not empty.
C3_SuccessIffNonEmptyOutput ==
    (call.fn = "convert_video.result" /\ ret.done) =>
        (ret.value <=> (call.arg.return_code = 0 /\ call.arg.output_state = "data"))

\* C4: with a non-zero exit status convert_video returns failure, whatever
\* the state of the output file.
C4_NonZeroExitFails ==
    (call.fn = "convert_video.result" /\ ret.done /\ call.arg.return_code # 0) =>
        ret.value = FALSE

\* C4 witness: the subprocess exited with status 1, left a non-empty output
\* file, and convert_video returned failure.
C4_Witness ==
    /\ call.fn = "convert_video.result"
    /\ ret.done
    /\ call.arg.return_code = 1
    /\ call.arg.output_state = "data"
    /\ ret.value = FALSE

\* C5: for the webm format the argument list selects libvpx-vp9 and libopus
\* and names neither libx264 nor aac.
C5_WebmCodecs ==
    (call.fn = "convert_video.cmd" /\ ret.done
       /\ lower(call.arg.output_format) = "webm") =>
        LET cmd == ret.value
        IN  /\ \E k \in 1..(Len(cmd) - 1) : cmd[k] = "-c:v" /\ cmd[k + 1] = "libvpx-vp9"
            /\ \E k \in 1..(Len(cmd) - 1) : cmd[k] = "-c:a" /\ cmd[k + 1] = "libopus"
            /\ "libx264" \notin Range(cmd)
            /\ "aac" \notin Range(cmd)

\* C6: the digits after the point of a time= token are read as a decimal
\* fraction of a second, whatever their number: .5 and .500 are both half a
\* second.
C6_DecimalFraction ==
    (call.fn = "convert_video.time" /\ ret.done) =>
        LET line == call.arg
            whole == int(line.h) * 3600 + int(line.m) * 60 + int(line.s)
            fraction == int(line.f) * Pow10(MaxFracDigits - Len(line.f))
        IN  ret.value = whole * TimeScale + fraction

\* C7: every percent passed to the progress callback is within 0..100 and
\* the percents of one job never decrease.
C7_ProgressMonotone ==
    call.fn = "convert_video.loop" =>
        \A k \in 1..Len(ret.value) :
            /\ 0 <= ret.value[k]
            /\ ret.value[k] <= 10000
            /\ k > 1 => ret.value[k - 1] <= ret.value[k]

\* C8: a worker stopped by the closing of the window before its first job
\* launched a subprocess has launched none and has posted a failed outcome
\* for every file of its batch.
C8_CancelBeforeStart ==
    \A w \in Workers :
        LET t == conversion_threads[w]
        IN  (destroyed /\ t.pc = "dead" /\ t.i = 1 /\ t.launched = 0) =>
                /\ Len(t.results) = Len(t.files)
                /\ \A k \in 1..Len(t.results) : ~t.results[k].success

\* C9: is_ffmpeg_installed never raises, and returns true exactly when the
\* tool ran to exit status 0 within the timeout.
C9_ProbeNeverRaises ==
    (call.fn = "is_ffmpeg_installed" /\ ret.done) =>
        /\ ret.raised = "none"
        /\ ret.value <=> (call.arg.exc = "none" /\ call.arg.returncode = 0)

\* C10: a fault raised while spawning the subprocess or reading its stream
\* in job i gives job i a failed outcome and leaves the loop running: while
\* the window is open the worker never reaches its exception handler, every
\* outcome posted for a faulted job is a failure of that job's file, and
\* the worker is then at the next file, or past the loop after the last.
C10_FaultIsolated ==
    \A w \in Workers :
        LET t == conversion_threads[w]
        IN  /\ (t.pc = "report" /\ t.fault # "none") => ~t.success
            /\ ~destroyed => t.pc \notin {"except", "dead"}
            /\ \A k \in 1..Len(t.results) :
                 t.results[k].fault =>
                    /\ ~t.results[k].success
                    /\ t.results[k].file = os_path_basename(t.files[k])
                    /\ t.i > k
                    /\ (k < Len(t.files) /\ ~destroyed) =>
                          t.pc \in {"announce", "convert", "read", "stalled",
                                    "wait", "report", "complete", "done"}
                    /\ t.pc \in {"complete", "done"} =>
                          Len(t.results) = Len(t.files)

\* C10 witness: the first job of a batch of two hit a fault and was posted
\* as failed, and the subprocess of the second job is running.
C10_Witness ==
    \E w \in Workers :
        LET t == conversion_threads[w]
        IN  /\ ~destroyed
            /\ Len(t.files) = 2
            /\ Len(t.results) = 1
            /\ t.results[1].fault /\ ~t.results[1].success
            /\ t.i = 2
            /\ t.pc = "read"
            /\ t.proc = "running"

\* C11: when the duration probe gives no duration, or gives 0, convert_video
\* passes no percent to the callback and raises no division error, and its
\* result follows the exit status and the output file: exit 0 with a
\* non-empty output file is a success, a non-zero exit or a missing output
\* file a failure.
C11_UnknownDuration ==
    (call.fn = "convert_video" /\ ret.stage # "probe"
       /\ (~ret.duration.known \/ ret.duration.value = 0)) =>
        /\ ret.value = <<>>
        /\ ret.raised = "none"
        /\ ret.done =>
             /\ (call.arg.return_code = 0 /\ call.arg.output_state = "data")
                   => ret.success
             /\ (call.arg.return_code # 0 \/ call.arg.output_state = "missing")
                   => ~ret.success

\* C11 witness: the probe reported a duration of 0, the subprocess exited
\* with status 0 and a non-empty output file, and convert_video returned
\* success without a progress event.
C11_Witness ==
    /\ call.fn = "convert_video"
    /\ call.arg.probe.out = "number" /\ call.arg.probe.secs = 0
    /\ ~call.arg.probe.exc /\ call.arg.probe.returncode = 0
    /\ call.arg.return_code = 0
    /\ call.arg.output_state = "data"
    /\ ret.done
    /\ ret.success
    /\ ret.value = <<>>

\* C12: once convert_video has returned, the subprocess it launched has
\* been waited for: a worker outside the read loop and the wait holds no
\* subprocess that has not been waited for.
C12_SubprocessReaped ==
    \A w \in Workers :
        LET t == conversion_threads[w]
        IN  t.pc \notin {"read", "stalled", "wait"} => t.proc = "none"

\* C13: no step taken while a worker is in its loop changes the list of
\* files it iterates, its target format, or the output path of a file whose
\* iteration has not begun.
C13_JobsFixed ==
    [][\A w \in Workers :
         LET t == conversion_threads[w]
             u == conversion_threads'[w]
         IN  t.pc \in {"announce", "convert", "read", "wait", "report"} =>
                /\ u.files = t.files
                /\ u.output_format = t.output_format
                /\ \A k \in NotYetRun(u) :
                     OutputFile(output_folder', u, k) = OutputFile(output_folder, t, k)
      ]_vars

\* C14: the messages of a batch are run by the main loop in the order the
\* worker generated them: a file's Converting notice before its progress
\* events, these before its outcome, the outcome before the next file's
\* notice, nothing twice but progress events, none without the one that
\* precedes it, and the completion callback last, after the outcome of the
\* last file.
C14_InOrder ==
    call = BatchCall =>
        LET log == ret.value
            files == conversion_threads[1].files
            n == Len(files)
            Index(name) ==
                CHOOSE k \in 1..n : os_path_basename(files[k]) = name
            Phase(kind) ==
                IF kind = "converting" THEN 0
                ELSE IF kind = "progress" THEN 1 ELSE 2
            Rank(m) ==
                IF m.kind \in {"complete", "error"} THEN 3 * (n + 1)
                ELSE 3 * Index(m.file) + Phase(m.kind)
            Before(q, r) == \E p \in 1..(q - 1) : Rank(log[p]) = r
        IN  /\ \A q \in 1..Len(log) :
                 \/ log[q].kind \in {"complete", "error"}
                 \/ \E k \in 1..n : os_path_basename(files[k]) = log[q].file
            /\ \A p, q \in 1..Len(log) :
                 p < q =>
                    /\ Rank(log[p]) <= Rank(log[q])
                    /\ Rank(log[p]) = Rank(log[q]) => log[p].kind = "progress"
            /\ \A q \in 1..Len(log) :
                 LET r == Rank(log[q])
                 IN  /\ (log[q].kind = "converting" /\ r > 3) => Before(q, r - 1)
                     /\ log[q].kind = "progress" => Before(q, r - 1)
                     /\ log[q].kind \in {"success", "failed"} => Before(q, r - 2)
                     /\ log[q].kind \in {"complete", "error"} =>
                            /\ Before(q, r - 1)
                            /\ q = Len(log)

\* C14 witness: the main loop has run every message of a batch of two
\* files, a progress event among them, and the completion callback.
C14_Witness ==
    /\ call = BatchCall
    /\ Len(conversion_threads[1].files) = 2
    /\ Len(ret.value) >= 6
    /\ \E q \in 1..Len(ret.value) : ret.value[q].kind = "progress"
    /\ ret.value[Len(ret.value)].kind = "complete"

\* C15: a started batch whose window stays open eventually has an outcome
\* for every file, its completion (or error) callback run by the main loop
\* and the Start button enabled again.
C15_BatchCompletes ==
    <>( \/ destroyed
        \/ /\ call = BatchCall
           /\ Len(conversion_threads[1].results) = Len(selected_files)
           /\ \E q \in 1..Len(ret.value) :
                ret.value[q].kind \in {"complete", "error"}
           /\ convert_btn = "normal" )

====
